---- MODULE Spec2Model ----
(***************************************************************************)
(* Model of src/src/main.rs: compute_plan (round-robin assignment of       *)
(* orders to riders) and process_event (RiderRejected / OrderCanceled      *)
(* applied to a Plan = HashMap<u32, Vec<u64>>).                            *)
(***************************************************************************)
EXTENDS Integers, Sequences, FiniteSets, TLC

MaxRiders == 3
MaxOrders == 3

RiderIds == 1..MaxRiders
OrderIds == 1..MaxOrders

\* Option::None of the `find` at main.rs:123 (no real rider id is 0 here).
NoRider == 0

Range(s) == {s[i] : i \in 1..Len(s)}

\* Sequences over S of length at most n with all elements distinct
\* (prop_assume!(... all_unique()), main.rs:152-153).
UniqueSeqs(S, n) ==
    {s \in UNION {[1..k -> S] : k \in 0..n} :
        \A i, j \in 1..Len(s) : i # j => s[i] # s[j]}

\* Plan::default(): the empty HashMap.
EmptyPlan == [r \in {} |-> <<>>]

\* Variant of entry_push: the order is put in front of the rider's sequence.
entry_push_front(p, rider, order) ==
    IF rider \in DOMAIN p
    THEN [p EXCEPT ![rider] = <<order>> \o @]
    ELSE [k \in DOMAIN p \cup {rider} |-> IF k = rider THEN <<order>> ELSE p[k]]

\* Variant of entry_push: plan.insert(rider, vec![order]), which replaces the
\* rider's sequence (the first implementation, main.rs:27).
entry_insert(p, rider, order) ==
    [k \in DOMAIN p \cup {rider} |-> IF k = rider THEN <<order>> ELSE p[k]]

\* plan.entry(rider).or_default().push(order)
entry_push(p, rider, order) ==
    IF rider \in DOMAIN p
    THEN [p EXCEPT ![rider] = Append(@, order)]
    ELSE [k \in DOMAIN p \cup {rider} |-> IF k = rider THEN <<order>> ELSE p[k]]

\* Variant of rider_at: always riders[0] (main.rs:41).
rider_first(rs, idx) == rs[1]

\* Variant of rider_at: index off by one, saturating at the first rider.
rider_at_saturating(rs, idx) == rs[IF idx = 0 THEN 1 ELSE idx]

\* riders[rider_idx].id with the 0-based index of the code.
rider_at(rs, idx) == rs[idx + 1]

\* orders[next_order_idx].id with the 0-based index of the code.
order_at(os, idx) == os[idx + 1]

\* orders.iter().position(|v| *v == order_id); 0 stands for None,
\* k >= 1 for Some(k-1).
position(s, v) ==
    IF \E i \in 1..Len(s) : s[i] = v
    THEN CHOOSE i \in 1..Len(s) : s[i] = v /\ \A j \in 1..(i - 1) : s[j] # v
    ELSE 0

\* Variant of remove_at: orders.swap_remove(idx), which moves the last element
\* into the freed place.
swap_remove_at(s, idx) ==
    IF idx = Len(s) THEN SubSeq(s, 1, Len(s) - 1)
    ELSE [i \in 1..(Len(s) - 1) |-> IF i = idx THEN s[Len(s)] ELSE s[i]]

\* Variant of remove_at: orders.truncate(idx) in place of orders.remove(idx).
truncate_at(s, idx) == SubSeq(s, 1, idx - 1)

\* orders.remove(idx), idx given 1-based.
remove_at(s, idx) == SubSeq(s, 1, idx - 1) \o SubSeq(s, idx + 1, Len(s))

\* Variant of retain: the first occurrence is taken out with swap_remove.
retain_swap_remove(s, v) ==
    IF \E i \in 1..Len(s) : s[i] = v
    THEN LET idx == CHOOSE i \in 1..Len(s) :
                        s[i] = v /\ \A j \in 1..(i - 1) : s[j] # v IN
         IF idx = Len(s) THEN SubSeq(s, 1, Len(s) - 1)
         ELSE [i \in 1..(Len(s) - 1) |-> IF i = idx THEN s[Len(s)] ELSE s[i]]
    ELSE s

\* Variant of retain: the predicate is inverted, retain(|v| *v == order_id).
retain_inverted(s, v) == SelectSeq(s, LAMBDA e : e = v)

\* orders.retain(|v| *v != order_id)
retain(s, v) == SelectSeq(s, LAMBDA e : e # v)

\* plan.iter_mut().find(|(id, _)| **id != rider_id): the first key other than
\* rider_id in the HashMap's iteration order, which is unspecified; every
\* other key is a possible result, None when there is no other key.
find_other(p, rider_id) ==
    IF DOMAIN p \ {rider_id} = {} THEN {NoRider} ELSE DOMAIN p \ {rider_id}

RejectedEvent(r, o) == [type |-> "RiderRejected", rider_id |-> r, order_id |-> o]
CanceledEvent(o) == [type |-> "OrderCanceled", rider_id |-> NoRider, order_id |-> o]
NoEvent == [type |-> "None", rider_id |-> NoRider, order_id |-> 0]

\* Variant of process_event: the rejected order is removed and never pushed.
process_event_drop(p, ev, found) ==
    IF ev.type = "RiderRejected"
    THEN IF ev.rider_id \in DOMAIN p
         THEN LET idx == position(p[ev.rider_id], ev.order_id) IN
              IF idx # 0
              THEN [p EXCEPT ![ev.rider_id] = remove_at(@, idx)]
              ELSE p
         ELSE p
    ELSE [r \in DOMAIN p |-> retain(p[r], ev.order_id)]

\* Variant of process_event: the first implementation (main.rs:112-116), which
\* pushes the order to another rider whether or not rider_id held it.
process_event_first_impl(p, ev, found) ==
    IF ev.type = "RiderRejected"
    THEN LET removed == IF ev.rider_id \in DOMAIN p
                        THEN [p EXCEPT ![ev.rider_id] = retain(@, ev.order_id)]
                        ELSE p IN
         IF found # NoRider
         THEN [removed EXCEPT ![found] = Append(@, ev.order_id)]
         ELSE removed
    ELSE [r \in DOMAIN p |-> retain(p[r], ev.order_id)]

\* Variant of process_event: a rider left without orders is removed from the
\* map.
process_event_prune(p, ev, found) ==
    LET q == IF ev.type = "RiderRejected"
             THEN IF ev.rider_id \in DOMAIN p
                  THEN LET idx == position(p[ev.rider_id], ev.order_id) IN
                       IF idx # 0
                       THEN LET removed ==
                                    [p EXCEPT ![ev.rider_id] = remove_at(@, idx)] IN
                            IF found # NoRider
                            THEN [removed EXCEPT ![found] = Append(@, ev.order_id)]
                            ELSE removed
                       ELSE p
                  ELSE p
             ELSE [r \in DOMAIN p |-> retain(p[r], ev.order_id)] IN
    [r \in {k \in DOMAIN q : q[k] # <<>>} |-> q[r]]

\* process_event; `found` is the result of the find at main.rs:123.
process_event(p, ev, found) ==
    IF ev.type = "RiderRejected"
    THEN IF ev.rider_id \in DOMAIN p
         THEN LET idx == position(p[ev.rider_id], ev.order_id) IN
              IF idx # 0
              THEN LET removed == [p EXCEPT ![ev.rider_id] = remove_at(@, idx)] IN
                   IF found # NoRider
                   THEN [removed EXCEPT ![found] = Append(@, ev.order_id)]
                   ELSE removed
              ELSE p
         ELSE p
    ELSE [r \in DOMAIN p |-> retain(p[r], ev.order_id)]

\* plan.values().flatten().cloned().collect::<HashSet<_>>() (main.rs:229)
AllOrderIds(p) == UNION {Range(p[r]) : r \in DOMAIN p}

\* starting_riders and starting_orders are the keys and the order ids of
\* starting_plan (main.rs:217, 239); canceled_orders is the set of ids of the
\* OrderCanceled events applied so far (main.rs:223).
VARIABLES riders, orders, pc, next_order_idx, rider_idx, plan, before, event,
          starting_riders, starting_orders, canceled_orders

history == <<starting_riders, starting_orders, canceled_orders>>

vars == <<riders, orders, pc, next_order_idx, rider_idx, plan, before, event,
          starting_riders, starting_orders, canceled_orders>>

Init ==
    /\ riders \in UniqueSeqs(RiderIds, MaxRiders)
    /\ orders \in UniqueSeqs(OrderIds, MaxOrders)
    /\ pc = "loop"
    /\ next_order_idx = 0
    /\ rider_idx = 0
    /\ plan = EmptyPlan
    /\ before = EmptyPlan
    /\ event = NoEvent
    /\ starting_riders = {}
    /\ starting_orders = {}
    /\ canceled_orders = {}

\* `loop {` at main.rs:48: start a pass of the for loop over 0..riders.len().
compute_plan_loop ==
    /\ pc = "loop"
    /\ pc' = "for"
    /\ rider_idx' = 0
    /\ UNCHANGED <<riders, orders, next_order_idx, plan, before, event, history>>

\* One iteration of `for rider_idx in 0..riders.len()` (main.rs:49-57), or the
\* end of the pass, which goes back to `loop`.
compute_plan_for ==
    /\ pc = "for"
    /\ IF rider_idx >= Len(riders)
       THEN /\ pc' = "loop"
            /\ UNCHANGED <<rider_idx, next_order_idx, plan>>
       ELSE IF next_order_idx >= Len(orders)
            THEN /\ pc' = "done"
                 /\ UNCHANGED <<rider_idx, next_order_idx, plan>>
            ELSE /\ plan' = entry_push(plan, rider_at(riders, rider_idx),
                                       order_at(orders, next_order_idx))
                 /\ next_order_idx' = next_order_idx + 1
                 /\ rider_idx' = rider_idx + 1
                 /\ pc' = "for"
    /\ UNCHANGED <<riders, orders, before, event, history>>

\* The returned Plan becomes the current plan that events are applied to
\* (main.rs:227); the builder's inputs are out of scope from here on.
start_events ==
    /\ pc = "done"
    /\ pc' = "events"
    /\ riders' = <<>>
    /\ orders' = <<>>
    /\ before' = plan
    /\ starting_riders' = DOMAIN plan
    /\ starting_orders' = AllOrderIds(plan)
    /\ canceled_orders' = {}
    /\ UNCHANGED <<next_order_idx, rider_idx, plan, event>>

apply_event(ev) ==
    /\ pc = "events"
    /\ \E found \in find_other(plan, ev.rider_id) :
           plan' = process_event(plan, ev, found)
    /\ before' = plan
    /\ event' = ev
    /\ canceled_orders' = IF ev.type = "OrderCanceled"
                        THEN canceled_orders \cup {ev.order_id}
                        ELSE canceled_orders
    /\ UNCHANGED <<riders, orders, pc, next_order_idx, rider_idx,
                   starting_riders, starting_orders>>

RiderRejected == \E r \in RiderIds, o \in OrderIds : apply_event(RejectedEvent(r, o))

OrderCanceled == \E o \in OrderIds : apply_event(CanceledEvent(o))

Next ==
    \/ compute_plan_loop
    \/ compute_plan_for
    \/ start_events
    \/ RiderRejected
    \/ OrderCanceled

Spec == Init /\ [][Next]_vars

\* compute_plan alone, run as a sequential program: it takes its next step
\* whenever it has one.
BuildNext ==
    \/ compute_plan_loop
    \/ compute_plan_for

BuildSpec == Init /\ [][BuildNext]_vars /\ WF_vars(BuildNext)

(***************************************************************************)
(* Vocabulary of the properties.                                           *)
(***************************************************************************)
Contains(s, v) == \E i \in 1..Len(s) : s[i] = v

Occurrences(s, v) == Cardinality({i \in 1..Len(s) : s[i] = v})

RECURSIVE SumOver(_, _)
SumOver(f, S) ==
    IF S = {} THEN 0
    ELSE LET x == CHOOSE y \in S : TRUE IN f[x] + SumOver(f, S \ {x})

\* The multiset of order ids over a whole Plan: order id -> number of
\* occurrences in all sequences together.
OrderBag(p) ==
    [o \in OrderIds |->
        SumOver([r \in DOMAIN p |-> Occurrences(p[r], o)], DOMAIN p)]

UniqueOrderIds(p) == \A o \in OrderIds : OrderBag(p)[o] <= 1

Holders(p, o) == {r \in DOMAIN p : Contains(p[r], o)}

Abs(n) == IF n < 0 THEN -n ELSE n

\* The last event was RiderRejected{rider_id, order_id} applied to a Plan in
\* which rider_id held order_id.
MatchingRejection ==
    /\ pc = "events"
    /\ event.type = "RiderRejected"
    /\ event.rider_id \in DOMAIN before
    /\ Contains(before[event.rider_id], event.order_id)

OtherRiders == DOMAIN before \ {event.rider_id}

(***************************************************************************)
(* C1: rejection conservation. When rider r holds order x in a Plan with   *)
(* unique order ids and another rider exists, RiderRejected{r,x} leaves x  *)
(* out of r's sequence, in exactly one other rider's sequence, and the     *)
(* multiset of order ids over the Plan unchanged.                          *)
(***************************************************************************)
RejectionConservation ==
    (MatchingRejection /\ UniqueOrderIds(before) /\ OtherRiders # {}) =>
        /\ ~Contains(plan[event.rider_id], event.order_id)
        /\ Cardinality(Holders(plan, event.order_id) \ {event.rider_id}) = 1
        /\ OrderBag(plan) = OrderBag(before)

RejectionConservationWitness ==
    /\ MatchingRejection
    /\ UniqueOrderIds(before)
    /\ Cardinality(OtherRiders) >= 2
    /\ Len(before[event.rider_id]) >= 2
    /\ plan # before

(***************************************************************************)
(* C2: when rider_id is the only rider of the Plan and holds order_id,     *)
(* RiderRejected does not drop the order: the prior Plan is left untouched *)
(* (the call is to fail with NoAlternateRider).                            *)
(***************************************************************************)
SoleRiderRejectionKeepsPlan ==
    (MatchingRejection /\ OtherRiders = {}) =>
        /\ plan = before
        /\ Contains(plan[event.rider_id], event.order_id)

(***************************************************************************)
(* C3: on a matching RiderRejected the receiving rider is the rider other  *)
(* than rider_id with the fewest orders, ties broken by the smallest rider *)
(* id, and order_id is appended at the end of that rider's sequence.       *)
(***************************************************************************)
LeastLoaded ==
    CHOOSE t \in OtherRiders :
        \A u \in OtherRiders :
            \/ Len(before[t]) < Len(before[u])
            \/ (Len(before[t]) = Len(before[u]) /\ t <= u)

LoadBalancedTarget ==
    (MatchingRejection /\ OtherRiders # {}) =>
        plan[LeastLoaded] = Append(before[LeastLoaded], event.order_id)

(***************************************************************************)
(* C4: build terminates for every input, the empty rider sequence          *)
(* included (where it is to return EmptyRiderSet at once).                 *)
(***************************************************************************)
BuildTerminates == <>(pc = "done")

(***************************************************************************)
(* C5: fairness over the whole lifecycle. From the Plan produced by build  *)
(* and after any sequence of events, any two riders' sequence lengths      *)
(* differ by at most 1.                                                    *)
(***************************************************************************)
Fair(p) == \A a, b \in DOMAIN p : Abs(Len(p[a]) - Len(p[b])) <= 1

LifecycleFairness == pc \in {"done", "events"} => Fair(plan)

\* C5 as amended: fairness holds for the Plan produced by build; an event
\* does not preserve it but changes every rider's sequence length by at most
\* 1, hence the difference of two riders' lengths by at most 2.
FairAfterBuildBoundedDrift ==
    /\ (pc \in {"done", "events"} /\ event.type = "None") => Fair(plan)
    /\ (pc = "events" /\ event.type # "None") =>
          /\ DOMAIN plan = DOMAIN before
          /\ \A a \in DOMAIN plan : Abs(Len(plan[a]) - Len(before[a])) <= 1
          /\ \A a, b \in DOMAIN plan :
                Abs(Abs(Len(plan[a]) - Len(plan[b]))
                    - Abs(Len(before[a]) - Len(before[b]))) <= 2

\* An event took a fair Plan to one in which two riders differ by 2.
FairAfterBuildBoundedDriftWitness ==
    /\ pc = "events"
    /\ event.type # "None"
    /\ Fair(before)
    /\ \E a, b \in DOMAIN plan : Len(plan[a]) - Len(plan[b]) = 2

(***************************************************************************)
(* C6: no duplication over the whole lifecycle. In a Plan built from       *)
(* unique ids, after any sequence of events, every order id present is in  *)
(* exactly one rider's sequence and exactly once in it.                    *)
(***************************************************************************)
NoDuplication ==
    pc \in {"done", "events"} =>
        \A o \in OrderIds :
            /\ Cardinality(Holders(plan, o)) <= 1
            /\ \A r \in DOMAIN plan : Occurrences(plan[r], o) <= 1

\* A rejection that did not match (the rider did not hold the order) while
\* another rider did, after an earlier event.
NoDuplicationWitness ==
    /\ pc = "events"
    /\ event.type = "RiderRejected"
    /\ event.rider_id \in DOMAIN before
    /\ Holders(before, event.order_id) # {}
    /\ event.rider_id \notin Holders(before, event.order_id)
    /\ Cardinality(DOMAIN plan) >= 2
    /\ \E r \in DOMAIN plan : Len(plan[r]) >= 2

(***************************************************************************)
(* C7: strict round robin. build gives the order at input position i to    *)
(* the rider at input position i mod |R|, appending in input order: the    *)
(* rider at position k holds exactly the orders at k, k+|R|, k+2|R|, ...   *)
(***************************************************************************)
PlanGet(p, r) == IF r \in DOMAIN p THEN p[r] ELSE <<>>

\* The orders at 1-based positions k, k+n, k+2n, ... of os, in that order.
EveryNth(os, n, k) ==
    LET cnt == Cardinality({j \in 1..Len(os) : (j - 1) % n = k - 1}) IN
    [i \in 1..cnt |-> os[k + (i - 1) * n]]

StrictRoundRobin ==
    pc = "done" =>
        /\ DOMAIN plan \subseteq Range(riders)
        /\ \A k \in 1..Len(riders) :
              PlanGet(plan, riders[k]) = EveryNth(orders, Len(riders), k)

StrictRoundRobinWitness ==
    /\ pc = "done"
    /\ Len(riders) >= 2
    /\ Len(orders) > Len(riders)
    /\ riders[1] > riders[2]
    /\ orders[1] > orders[2]

(***************************************************************************)
(* C8: build conservation. The order ids over all sequences of the built   *)
(* Plan are exactly the ids of the input orders, none more than once.      *)
(***************************************************************************)
BuildConservation ==
    pc = "done" =>
        /\ AllOrderIds(plan) = Range(orders)
        /\ UniqueOrderIds(plan)

BuildConservationWitness ==
    /\ pc = "done"
    /\ Len(riders) >= 2
    /\ Len(orders) = MaxOrders

(***************************************************************************)
(* C9: build fairness. Every rider receives floor(|O|/|R|) orders or one   *)
(* more, so any two riders' sequence lengths differ by at most 1.          *)
(***************************************************************************)
BuildFairness ==
    pc = "done" =>
        /\ \A r \in Range(riders) :
              Len(PlanGet(plan, r)) \in
                  {Len(orders) \div Len(riders), Len(orders) \div Len(riders) + 1}
        /\ \A a, b \in Range(riders) :
              Abs(Len(PlanGet(plan, a)) - Len(PlanGet(plan, b))) <= 1

BuildFairnessWitness ==
    /\ pc = "done"
    /\ Len(riders) >= 2
    /\ Len(orders) > Len(riders)
    /\ Len(orders) % Len(riders) # 0

(***************************************************************************)
(* C10: build coverage. With at least as many orders as riders, every      *)
(* rider of the input is a key of the built Plan with a non-empty          *)
(* sequence.                                                               *)
(***************************************************************************)
BuildCoverage ==
    (pc = "done" /\ Len(orders) >= Len(riders)) =>
        \A r \in Range(riders) : r \in DOMAIN plan /\ plan[r] # <<>>

BuildCoverageWitness ==
    /\ pc = "done"
    /\ Len(riders) = MaxRiders
    /\ Len(orders) >= Len(riders)

(***************************************************************************)
(* C11: the keys of the built Plan are exactly the ids of the input        *)
(* riders, also when there are fewer orders than riders: a rider that      *)
(* receives no order is a key mapped to the empty sequence.                *)
(***************************************************************************)
BuildKeysAreRiders ==
    pc = "done" =>
        /\ DOMAIN plan = Range(riders)
        /\ \A r \in Range(riders) : r \in DOMAIN plan

(***************************************************************************)
(* C12: a mismatched RiderRejected{rider_id, order_id} is a no-op. If      *)
(* rider_id is not a key of the Plan or order_id is not in that rider's    *)
(* sequence (another rider holds it, or it is gone), the Plan is returned  *)
(* unchanged.                                                              *)
(***************************************************************************)
MismatchedRejection ==
    /\ pc = "events"
    /\ event.type = "RiderRejected"
    /\ \/ event.rider_id \notin DOMAIN before
       \/ ~Contains(before[event.rider_id], event.order_id)

MismatchedRejectionIsNoOp == MismatchedRejection => plan = before

\* The rider is a key and does not hold the order, another rider does, and a
\* third rider could have been given it.
MismatchedRejectionIsNoOpWitness ==
    /\ MismatchedRejection
    /\ event.rider_id \in DOMAIN before
    /\ Holders(before, event.order_id) # {}
    /\ Cardinality(DOMAIN before) >= 3

(***************************************************************************)
(* C13: OrderCanceled{order_id} returns a Plan in which order_id appears   *)
(* nowhere and every other order stays with the same rider at the same     *)
(* relative position; when order_id is absent the Plan is unchanged.       *)
(***************************************************************************)
\* s and t hold the same elements other than v, in the same relative order,
\* and t does not hold v (for sequences without repetition).
SameWithout(s, t, v) ==
    /\ Range(t) = Range(s) \ {v}
    /\ Len(t) = Cardinality(Range(t))
    /\ \A i, j \in 1..Len(s) :
          (i < j /\ s[i] # v /\ s[j] # v) => position(t, s[i]) < position(t, s[j])

CancelRemovesOnlyTheOrder ==
    (pc = "events" /\ event.type = "OrderCanceled" /\ UniqueOrderIds(before)) =>
        /\ DOMAIN plan = DOMAIN before
        /\ Holders(plan, event.order_id) = {}
        /\ \A r \in DOMAIN before : SameWithout(before[r], plan[r], event.order_id)
        /\ Holders(before, event.order_id) = {} => plan = before

\* The canceled order was the first of three in its rider's sequence.
CancelRemovesOnlyTheOrderWitness ==
    /\ pc = "events"
    /\ event.type = "OrderCanceled"
    /\ \E r \in DOMAIN before :
          /\ Len(before[r]) >= 3
          /\ before[r][1] = event.order_id
          /\ Len(plan[r]) = 2

(***************************************************************************)
(* C14: no event changes the set of riders. The key set after an event     *)
(* equals the key set before it, and after any sequence of events the key  *)
(* set is that of the starting Plan; a rider whose sequence becomes empty  *)
(* remains a key.                                                          *)
(***************************************************************************)
RiderSetUnchanged ==
    pc = "events" =>
        /\ DOMAIN plan = DOMAIN before
        /\ DOMAIN plan = starting_riders

\* The last event emptied a rider's sequence and the rider is still a key.
RiderSetUnchangedWitness ==
    /\ pc = "events"
    /\ event.type # "None"
    /\ \E r \in DOMAIN plan : before[r] # <<>> /\ plan[r] = <<>>
    /\ Cardinality(DOMAIN plan) >= 2

(***************************************************************************)
(* C15: order accounting over an event sequence. From a starting Plan with *)
(* at least two riders, non-empty sequences and unique order ids, after    *)
(* any sequence of events: no canceled order id remains in the Plan, the   *)
(* starting order ids are the canceled ids together with the remaining     *)
(* ones, and every RiderRejected step leaves the set of order ids          *)
(* unchanged and order_id out of rider_id's sequence.                      *)
(***************************************************************************)
OrderAccountingAnyEvents ==
    (pc = "events" /\ Cardinality(starting_riders) > 1) =>
        /\ canceled_orders \cap AllOrderIds(plan) = {}
        /\ starting_orders = canceled_orders \cup AllOrderIds(plan)
        /\ event.type = "RiderRejected" =>
              /\ AllOrderIds(plan) = AllOrderIds(before)
              /\ ~Contains(PlanGet(plan, event.rider_id), event.order_id)

\* C15 as amended: the starting order ids are the canceled ids that belong to
\* the starting Plan together with the remaining ones (an OrderCanceled for
\* an id the starting Plan never held is a no-op and its id is canceled
\* without being a starting id); the rest as claimed.
OrderAccounting ==
    (pc = "events" /\ Cardinality(starting_riders) > 1) =>
        /\ canceled_orders \cap AllOrderIds(plan) = {}
        /\ starting_orders =
               (canceled_orders \cap starting_orders) \cup AllOrderIds(plan)
        /\ event.type = "RiderRejected" =>
              /\ AllOrderIds(plan) = AllOrderIds(before)
              /\ ~Contains(PlanGet(plan, event.rider_id), event.order_id)

\* After the cancellation of an order of the starting Plan and of an id the
\* starting Plan never held, a rider rejects the canceled order while another
\* order remains in the Plan.
OrderAccountingWitness ==
    /\ pc = "events"
    /\ Cardinality(starting_riders) > 1
    /\ canceled_orders \ starting_orders # {}
    /\ event.type = "RiderRejected"
    /\ event.order_id \in canceled_orders \cap starting_orders
    /\ event.rider_id \in DOMAIN plan
    /\ AllOrderIds(plan) # {}

(***************************************************************************)
(* C16: cancellation is idempotent. Applying OrderCanceled{x} twice in a   *)
(* row gives the same Plan as applying it once, and the resulting set of   *)
(* order ids is the prior set minus {x}.                                   *)
(***************************************************************************)
CancelIdempotent ==
    pc = "events" =>
        /\ \A x \in OrderIds :
              LET once == process_event(plan, CanceledEvent(x), NoRider)
                  twice == process_event(once, CanceledEvent(x), NoRider) IN
              /\ twice = once
              /\ AllOrderIds(once) = AllOrderIds(plan) \ {x}
        /\ event.type = "OrderCanceled" =>
              /\ AllOrderIds(plan) = AllOrderIds(before) \ {event.order_id}
              /\ process_event(plan, event, NoRider) = plan

\* OrderCanceled{x} applied to a Plan from which x, an order of the starting
\* Plan, is already gone.
CancelIdempotentWitness ==
    /\ pc = "events"
    /\ event.type = "OrderCanceled"
    /\ event.order_id \in starting_orders \cap canceled_orders
    /\ Holders(before, event.order_id) = {}
    /\ plan = before
    /\ Cardinality(AllOrderIds(plan)) >= 2

(***************************************************************************)
(* C17: apply is a deterministic function of its arguments. For the same   *)
(* Plan and event any two executions return equal Plans; the rider chosen  *)
(* for a rejected order does not depend on the map's iteration order.      *)
(***************************************************************************)
Events ==
    {RejectedEvent(r, o) : r \in RiderIds, o \in OrderIds}
        \cup {CanceledEvent(o) : o \in OrderIds}

ApplyDeterministic ==
    pc = "events" =>
        \A ev \in Events :
            \A f1, f2 \in find_other(plan, ev.rider_id) :
                process_event(plan, ev, f1) = process_event(plan, ev, f2)

(***************************************************************************)
(* C18: events preserve delivery order. Two orders that are in the same    *)
(* rider's sequence before and after an event keep their relative order;   *)
(* the only order that can change position is a relocated one, which       *)
(* becomes the last element of its new rider's sequence.                   *)
(***************************************************************************)
DeliveryOrderPreserved ==
    (pc = "events" /\ event.type # "None" /\ UniqueOrderIds(before)) =>
        /\ \A r \in DOMAIN before \cap DOMAIN plan :
              \A a, b \in Range(before[r]) \cap Range(plan[r]) :
                  position(before[r], a) < position(before[r], b)
                      => position(plan[r], a) < position(plan[r], b)
        /\ \A r \in DOMAIN plan :
              \A o \in Range(plan[r]) \ Range(PlanGet(before, r)) :
                  /\ event = RejectedEvent(event.rider_id, o)
                  /\ r # event.rider_id
                  /\ plan[r][Len(plan[r])] = o

\* The first of three orders of a rider was relocated behind another rider's
\* orders, or behind none.
DeliveryOrderPreservedWitness ==
    /\ MatchingRejection
    /\ Len(before[event.rider_id]) >= 3
    /\ before[event.rider_id][1] = event.order_id
    /\ \E t \in OtherRiders : plan[t] = Append(before[t], event.order_id)
====
